---- MODULE Spec2Model ----
(***************************************************************************)
(* A model of the RAG research agent: the document reducer reduce_docs     *)
(* (src/shared/utils.py), the state it reduces (src/shared/state.py), the  *)
(* main, researcher and index graphs (src/graphs), the model and retriever *)
(* managers and the configuration (src/shared) and the CRUD managers       *)
(* (src/crud).                                                             *)
(***************************************************************************)
EXTENDS Naturals, Integers, Sequences, FiniteSets, TLC

VARIABLES
    docs,       \* the document collection held in the state (the reducer's result)
    existing,   \* the `existing` argument of the last reduce_docs call
    new,        \* the `new` argument of the last reduce_docs call
    outcome,    \* "init" | "returned" | "raised": how the last call ended
    after,      \* the two arguments as the last call left them
    node,       \* main graph: the node that runs next ("END" when the turn is over)
    router,     \* AgentState.router
    steps,      \* AgentState.steps
    messages,   \* AgentState.messages, each message by its role
    documents,  \* AgentState.documents
    researchers,\* the researcher subgraph invocations of this turn, one per step
    trace,      \* the nodes of the main graph that ran in this turn, in order
    context,    \* the documents respond built its <docs> context from
    turn,       \* the number of the turn on this thread
    update,     \* the documents of the update conduct_research returned
    cache,      \* ModelManager._models and RetrieverManager._retrievers
    built,      \* the handles constructed so far (a handle is its number)
    made,       \* per manager and key: constructions since its last clear_cache
    callers,    \* per task: its last get_model / get_retriever call since
                \* the manager's last clear_cache
    loop,       \* the task that is inside a get call (0: none)
    environ,    \* os.environ: the connection variables that are set
    manager,    \* the CRUD manager: backend, provider, _vector_store
    store,      \* the ids of the documents in the vector store
    next_id,    \* the ids the store has handed out so far
    result,     \* the last CRUD call: its number, operation and outcome
    index       \* the run of the index graph: its input, IndexState.documents,
                \* where it is and how it ended

reducerVars == <<docs, existing, new, outcome, after>>
graphVars == <<node, router, steps, messages, documents, researchers, trace,
               context, turn, update>>
cacheVars == <<cache, built, made, callers, loop>>
crudVars == <<environ, manager, store, next_id, result>>
indexVars == <<index>>
\* what the graphs, a reduce_docs call, the managers' caches and the CRUD
\* managers each leave alone
notGraphVars == <<reducerVars, cacheVars, crudVars, indexVars>>
notReducerVars == <<graphVars, cacheVars, crudVars, indexVars>>
notCacheVars == <<graphVars, reducerVars, crudVars, indexVars>>
notCrudVars == <<graphVars, reducerVars, cacheVars, indexVars>>
notIndexVars == <<graphVars, reducerVars, cacheVars, crudVars>>
vars == <<docs, existing, new, outcome, after, node, router, steps, messages,
          documents, researchers, trace, context, turn, update,
          cache, built, made, callers, loop,
          environ, manager, store, next_id, result, index>>

----------------------------------------------------------------------------
(* Bounds of the model.                                                    *)

\* most documents in the input state of the index graph
MaxIndexed == 2
\* longest collection reduce_docs is called on
MaxExisting == 2
\* longest list handed to reduce_docs as `new`
MaxBatch == 2
\* longest research plan the planner model returns
MaxSteps == 2
\* most queries the query-generation model returns for one step
MaxQueries == 2
\* most documents one retriever call returns
MaxRetrieved == 1
\* turns run on one thread
MaxTurns == 2
\* tasks that call get_model / get_retriever
MaxTasks == 2
\* handles constructed in one run
MaxBuilds == 3
\* documents one add_documents call adds
MaxAdd == 2
\* ids the vector store hands out in one run
MaxIds == 3
\* CRUD calls in one run
MaxOps == 4

----------------------------------------------------------------------------
(* Values.                                                                 *)

\* page contents; "" is what item.get("page_content", "") gives for a dict
\* that has no page_content
Contents == {"a", "b"}

\* the scalar strings handed to reduce_docs; "delete" is the delete signal
Strings == Contents \cup {"delete"}

\* metadata without a "uuid" key (metadata.get("uuid") is None)
NoUuid == "<none>"
\* metadata whose uuid is the empty string (falsy)
EmptyUuid == ""

\* hashlib.md5(page_content.encode()).hexdigest() as a UUID string: a
\* deterministic, collision-free function of the content
generate_uuid(page_content) == "md5:" \o page_content

\* langchain Document(page_content, metadata): the uuid stands for
\* metadata["uuid"], NoUuid for metadata without that key
Document(page_content, uuid) == [page_content |-> page_content, uuid |-> uuid]

\* the items a list given as `new` may hold
StrItems == [kind : {"str"}, has_pc : {TRUE}, page_content : Contents,
             uuid : {NoUuid}]
\* a dict with the key "page_content": without a uuid in its metadata, with
\* one unrelated to any content, with an empty one, and with one that is the
\* hash of another content
DictItems ==
    [kind : {"dict"}, has_pc : {TRUE}, page_content : Contents,
     uuid : {NoUuid, "u1"}]
    \cup [kind : {"dict"}, has_pc : {TRUE}, page_content : {"b"},
          uuid : {EmptyUuid, generate_uuid("a")}]
\* a dict without the key "page_content"
BareDictItems == [kind : {"dict"}, has_pc : {FALSE}, page_content : {""},
                  uuid : {"u1"}]
DocItems ==
    [kind : {"doc"}, has_pc : {TRUE}, page_content : {"a"},
     uuid : {NoUuid, EmptyUuid}]
    \cup [kind : {"doc"}, has_pc : {TRUE}, page_content : {"b"},
          uuid : {"u1", generate_uuid("a")}]
\* an item that is neither str, dict nor Document (an int, None, ...)
OtherItems == [kind : {"other"}, has_pc : {FALSE}, page_content : {""},
               uuid : {NoUuid}]
Items == StrItems \cup DictItems \cup BareDictItems \cup DocItems \cup OtherItems

SeqsUpTo(S, n) == UNION {[1..k -> S] : k \in 0..n}

\* the values of `new`: a str, a list, or anything else
StrNew(s) == [kind |-> "str", text |-> s, items |-> <<>>]
ListNew(l) == [kind |-> "list", text |-> "", items |-> l]
OtherNew == [kind |-> "other", text |-> "", items |-> <<>>]
NoCall == [kind |-> "none", text |-> "", items |-> <<>>]

\* documents a collection may hold before the first modelled call
ExistingDocs ==
    {Document("a", generate_uuid("a")), Document("b", "u1"),
     Document("a", NoUuid), Document("b", generate_uuid("a"))}

----------------------------------------------------------------------------
(* reduce_docs                                                             *)

\* new == "delete"
IsDeleteSignal_never(n) == FALSE
IsDeleteSignal(n) == n.kind = "str" /\ n.text = "delete"

\* set(doc.metadata.get("uuid") for doc in existing_list)
existing_ids(existing_list) ==
    {existing_list[i].uuid : i \in DOMAIN existing_list}

\* the scalar-string path: existing_list + [Document(new, uuid(new))]
StringAppend_dedup(existing_list, s) ==
    IF generate_uuid(s) \in existing_ids(existing_list)
    THEN existing_list
    ELSE Append(existing_list, Document(s, generate_uuid(s)))
StringAppend(existing_list, s) ==
    Append(existing_list, Document(s, generate_uuid(s)))

\* an id taken from the metadata whenever the key is there
item_id_keep_empty(item) ==
    IF item.uuid # NoUuid THEN item.uuid ELSE generate_uuid(item.page_content)

\* metadata.get("uuid") or _generate_uuid(item.get("page_content", "")),
\* and for a Document: metadata.get("uuid", ""), replaced when falsy
item_id(item) ==
    IF item.uuid \notin {NoUuid, EmptyUuid}
    THEN item.uuid
    ELSE generate_uuid(item.page_content)

\* one pass of `for item in new`, on acc = (new_list, existing_ids, raised)
ListStep(acc, item) ==
    IF acc.raised THEN acc
    ELSE IF item.kind = "str" THEN
        \* appended without a look at existing_ids
        [acc EXCEPT
            !.new_list = Append(@, Document(item.page_content,
                                            generate_uuid(item.page_content))),
            !.ids = @ \cup {generate_uuid(item.page_content)}]
    ELSE IF item.kind = "dict" THEN
        IF item_id(item) \in acc.ids THEN acc
        ELSE IF ~item.has_pc
        \* Document(**item) without page_content raises
        THEN [acc EXCEPT !.raised = TRUE]
        ELSE [acc EXCEPT
                !.new_list = Append(@, Document(item.page_content, item_id(item))),
                !.ids = @ \cup {item_id(item)}]
    ELSE IF item.kind = "doc" THEN
        IF item_id(item) \in acc.ids THEN acc
        ELSE [acc EXCEPT
                !.new_list = Append(@, Document(item.page_content, item_id(item))),
                !.ids = @ \cup {item_id(item)}]
    ELSE acc

RECURSIVE ListFold(_, _)
ListFold(acc, items) ==
    IF items = <<>> THEN acc
    ELSE ListFold(ListStep(acc, Head(items)), Tail(items))

\* the list path: new_list after the loop over `new`
ListMerge(existing_list, items) ==
    ListFold([new_list |-> <<>>, ids |-> existing_ids(existing_list),
              raised |-> FALSE], items)

\* reduce_docs(existing, new): [raised, docs]; docs is the returned list
reduce_docs(existing_list, n) ==
    IF IsDeleteSignal(n) THEN [raised |-> FALSE, docs |-> <<>>]
    ELSE IF n.kind = "str"
        THEN [raised |-> FALSE, docs |-> StringAppend(existing_list, n.text)]
    ELSE IF n.kind = "list"
        THEN LET m == ListMerge(existing_list, n.items)
             IN  [raised |-> m.raised,
                  docs |-> IF m.raised THEN <<>> ELSE existing_list \o m.new_list]
    ELSE [raised |-> FALSE, docs |-> existing_list]

\* item.copy(deep=True) of the k-th item of `new`: the object new_item
\* refers to (k: the item itself; 0: a new object)
copy_deep_alias(k) == k
copy_deep(k) == 0

\* the loop reaches the k-th item: no earlier item raised
Reached(existing_list, items, k) ==
    ~ListMerge(existing_list, SubSeq(items, 1, k - 1)).raised

\* the k-th item of `new` after the call: new_item.metadata["uuid"] = item_id
\* is the one write of the loop, made when a Document has no uuid, to the
\* object new_item refers to
ItemAfter(existing_list, items, k) ==
    IF /\ items[k].kind = "doc"
       /\ items[k].uuid \in {NoUuid, EmptyUuid}
       /\ Reached(existing_list, items, k)
       /\ copy_deep(k) = k
    THEN [items[k] EXCEPT !.uuid = generate_uuid(items[k].page_content)]
    ELSE items[k]

\* the arguments after reduce_docs(existing, new): `existing` is only read
\* (list(existing), existing_list + ...), a dict item is only unpacked into
\* new dicts, a str is immutable
ArgsAfter(existing_list, n) ==
    [existing |-> existing_list,
     new |-> IF n.kind = "list"
             THEN [n EXCEPT !.items =
                        [k \in DOMAIN n.items |-> ItemAfter(existing_list, n.items, k)]]
             ELSE n]

NoArgs == [existing |-> <<>>, new |-> NoCall]

----------------------------------------------------------------------------
(* The reducer as a state machine: an update arrives, reduce_docs merges   *)
(* it into the collection, and the merged collection is the `existing` of  *)
(* the next call; a call that raises leaves the collection as it was.      *)

\* no call is under way, and the collection is within the model's bound
CanCall == outcome = "init" /\ Len(docs) <= MaxExisting

Reduce(n) ==
    /\ LET r == reduce_docs(docs, n)
       IN  /\ existing' = docs
           /\ new' = n
           /\ outcome' = IF r.raised THEN "raised" ELSE "returned"
           /\ docs' = IF r.raised THEN docs ELSE r.docs
           /\ after' = ArgsAfter(docs, n)
    /\ UNCHANGED notReducerVars

\* new is a single string (the delete signal included)
ReduceString == CanCall /\ \E s \in Strings : Reduce(StrNew(s))

\* new is a list of items
ReduceList == CanCall /\ \E l \in SeqsUpTo(Items, MaxBatch) : Reduce(ListNew(l))

\* new is neither a string nor a list
ReduceOther == CanCall /\ Reduce(OtherNew)

\* the call is over: the update is dropped, the collection stays
Settle ==
    /\ outcome # "init"
    /\ existing' = <<>>
    /\ new' = NoCall
    /\ outcome' = "init"
    /\ after' = NoArgs
    /\ UNCHANGED docs
    /\ UNCHANGED notReducerVars

----------------------------------------------------------------------------
(* The main graph and the researcher subgraph.                             *)

RouterTypes == {"more-info", "rag-research", "general"}
\* plan steps and search queries, as the models word them
Steps == {"s1"}
Queries == {"q" \o ToString(k) : k \in 1..MaxQueries}
\* the query lists the query-generation model returns: no query, one, or
\* several different ones
QueryLists ==
    {[k \in 1..n |-> "q" \o ToString(k)] : n \in 0..MaxQueries}
\* documents the vector store holds: one stored without a uuid, one with
RetrievedDocs == {[kind |-> "doc", has_pc |-> TRUE, page_content |-> "a", uuid |-> NoUuid],
                  [kind |-> "doc", has_pc |-> TRUE, page_content |-> "b", uuid |-> "u1"]}

\* a Document of the state, as an item of a list handed to reduce_docs
AsItem(d) == [kind |-> "doc", has_pc |-> TRUE, page_content |-> d.page_content,
              uuid |-> d.uuid]
AsItems(ds) == [i \in DOMAIN ds |-> AsItem(ds[i])]

\* builder.add_edge(START, "analyze_and_route_query")
edge_START == "analyze_and_route_query"

\* route_query: mapping[state.router["type"]]
route_query_fallthrough(state_router) ==
    IF state_router.type = "rag-research" THEN "create_research_plan"
    ELSE "respond_to_general_query"
route_query(state_router) ==
    CASE state_router.type = "more-info" -> "ask_for_more_info"
      [] state_router.type = "general" -> "respond_to_general_query"
      [] state_router.type = "rag-research" -> "create_research_plan"

\* builder.add_edge("ask_for_more_info", END)
edge_ask_for_more_info_respond == "respond"
edge_ask_for_more_info == "END"
\* builder.add_edge("respond_to_general_query", END)
edge_respond_to_general_query_respond == "respond"
edge_respond_to_general_query == "END"
\* builder.add_edge("create_research_plan", "conduct_research")
edge_create_research_plan == "conduct_research"
\* check_finished: always "respond"
check_finished_end == "END"
check_finished == "respond"
\* builder.add_edge("respond", END)
edge_respond == "END"

\* no node is added with a retry policy and no node catches an exception: a
\* call that raises ends the run of the graph
on_failure_retry(at) == at
on_failure(at) == "ABORTED"

\* retrieve_in_parallel: one Send("retrieve_documents", QueryState(query)) per
\* query; completed is the task's place in the order of completion (0: not yet)
retrieve_in_parallel(queries) ==
    [k \in DOMAIN queries |->
        [query |-> queries[k], done |-> FALSE, completed |-> 0, response |-> <<>>]]

\* ResearcherState of researcher_graph.ainvoke({"question": step})
NewResearcher(step) ==
    [question |-> step, at |-> "generate_queries", queries |-> <<>>,
     tasks |-> <<>>, documents |-> <<>>]

\* the tasks' updates reduced in the order given
RECURSIVE MergeInOrder(_, _, _)
MergeInOrder(acc, tasks, order) ==
    IF order = <<>> THEN acc
    ELSE MergeInOrder(reduce_docs(acc, ListNew(tasks[Head(order)].response)).docs,
                      tasks, Tail(order))
\* the updates reduced as the tasks complete
MergeTasks_by_completion(acc, tasks) ==
    MergeInOrder(acc, tasks,
        [r \in DOMAIN tasks |-> CHOOSE k \in DOMAIN tasks : tasks[k].completed = r])

\* ResearcherState.documents after the retrieve_documents tasks' updates went
\* through its reducer, in task order
RECURSIVE MergeTasks(_, _)
MergeTasks(acc, tasks) ==
    IF tasks = <<>> THEN acc
    ELSE MergeTasks(reduce_docs(acc, ListNew(Head(tasks).response)).docs, Tail(tasks))

\* await asyncio.gather(*tasks): every researcher_graph.ainvoke has returned
gather_done_first(rs) == IF DOMAIN rs = {} THEN TRUE ELSE rs[1].at = "END"
gather_done(rs) == \A i \in DOMAIN rs : rs[i].at = "END"

\* [document for result in results for document in result.get("documents", [])]
Concat_first(rs) == IF rs = <<>> THEN <<>> ELSE Head(rs).documents
RECURSIVE Concat(_)
Concat(rs) ==
    IF rs = <<>> THEN <<>> ELSE Head(rs).documents \o Concat(Tail(rs))

\* respond: "\n\n".join([doc.page_content for doc in state.documents])
respond_context_none(state_documents) == <<>>
respond_context(state_documents) == state_documents

\* the tasks of a researcher that have completed
Completed(tasks) == {k \in DOMAIN tasks : tasks[k].done}

\* analyze_and_route_query, then the conditional edge route_query
AnalyzeAndRouteQuery ==
    /\ node = "analyze_and_route_query"
    /\ \E t \in RouterTypes :
        /\ router' = [type |-> t]
        /\ node' = route_query(router')
    /\ trace' = Append(trace, "analyze_and_route_query")
    /\ UNCHANGED <<steps, messages, documents, researchers, context, turn, update>>
    /\ UNCHANGED notGraphVars

AskForMoreInfo ==
    /\ node = "ask_for_more_info"
    /\ messages' = Append(messages, "ai")
    /\ trace' = Append(trace, "ask_for_more_info")
    /\ node' = edge_ask_for_more_info
    /\ UNCHANGED <<router, steps, documents, researchers, context, turn, update>>
    /\ UNCHANGED notGraphVars

RespondToGeneralQuery ==
    /\ node = "respond_to_general_query"
    /\ messages' = Append(messages, "ai")
    /\ trace' = Append(trace, "respond_to_general_query")
    /\ node' = edge_respond_to_general_query
    /\ UNCHANGED <<router, steps, documents, researchers, context, turn, update>>
    /\ UNCHANGED notGraphVars

\* a planner that also returns {"documents": "delete"}
CreateResearchPlan_delete ==
    /\ node = "create_research_plan"
    /\ \E plan \in SeqsUpTo(Steps, MaxSteps) : steps' = plan
    /\ documents' = reduce_docs(documents, StrNew("delete")).docs
    /\ trace' = Append(trace, "create_research_plan")
    /\ node' = edge_create_research_plan
    /\ UNCHANGED <<router, messages, researchers, context, turn, update>>
    /\ UNCHANGED notGraphVars

CreateResearchPlan ==
    /\ node = "create_research_plan"
    /\ \E plan \in SeqsUpTo(Steps, MaxSteps) : steps' = plan
    /\ trace' = Append(trace, "create_research_plan")
    /\ node' = edge_create_research_plan
    /\ UNCHANGED <<router, messages, documents, researchers, context, turn, update>>
    /\ UNCHANGED notGraphVars

\* conduct_research up to its await: one researcher_graph.ainvoke per step
ConductResearch ==
    /\ node = "conduct_research"
    /\ researchers' = [i \in DOMAIN steps |-> NewResearcher(steps[i])]
    /\ trace' = Append(trace, "conduct_research")
    /\ node' = "gather"
    /\ UNCHANGED <<router, steps, messages, documents, context, turn, update>>
    /\ UNCHANGED notGraphVars

\* researcher graph: generate_queries, then the edge retrieve_in_parallel
GenerateQueries(i) ==
    /\ researchers[i].at = "generate_queries"
    /\ \E qs \in QueryLists :
        researchers' = [researchers EXCEPT
            ![i].queries = qs,
            ![i].tasks = retrieve_in_parallel(qs),
            ![i].at = IF qs = <<>> THEN "END" ELSE "retrieve_documents"]
    /\ UNCHANGED <<node, router, steps, messages, documents, trace, context, turn, update>>
    /\ UNCHANGED notGraphVars

\* researcher graph: one retrieve_documents task returns the retriever's answer
RetrieveDocuments(i, k) ==
    /\ researchers[i].at = "retrieve_documents"
    /\ ~researchers[i].tasks[k].done
    /\ \E response \in SeqsUpTo(RetrievedDocs, MaxRetrieved) :
        researchers' = [researchers EXCEPT
            ![i].tasks[k].done = TRUE,
            ![i].tasks[k].completed = Cardinality(Completed(researchers[i].tasks)) + 1,
            ![i].tasks[k].response = response]
    /\ UNCHANGED <<node, router, steps, messages, documents, trace, context, turn, update>>
    /\ UNCHANGED notGraphVars

\* researcher graph: every task of the fan-out returned; their updates are
\* reduced into ResearcherState.documents and the edge to END is taken
ResearcherEnd(i) ==
    /\ researchers[i].at = "retrieve_documents"
    /\ \A k \in DOMAIN researchers[i].tasks : researchers[i].tasks[k].done
    /\ researchers' = [researchers EXCEPT
            ![i].documents = MergeTasks(<<>>, researchers[i].tasks),
            ![i].at = "END"]
    /\ UNCHANGED <<node, router, steps, messages, documents, trace, context, turn, update>>
    /\ UNCHANGED notGraphVars

\* conduct_research after its await: the update {"documents": documents} goes
\* through the reducer of AgentState.documents, then the edge check_finished
ConductResearchReturn ==
    /\ node = "gather"
    /\ gather_done(researchers)
    /\ update' = Concat(researchers)
    /\ documents' = reduce_docs(documents, ListNew(AsItems(update'))).docs
    /\ node' = check_finished
    /\ UNCHANGED <<router, steps, messages, researchers, trace, context, turn>>
    /\ UNCHANGED notGraphVars

respond ==
    /\ node = "respond"
    /\ context' = respond_context(documents)
    /\ messages' = Append(messages, "ai")
    /\ trace' = Append(trace, "respond")
    /\ node' = edge_respond
    /\ UNCHANGED <<router, steps, documents, researchers, turn, update>>
    /\ UNCHANGED notGraphVars

\* the model call of a node of the main graph raises
ModelCallFails ==
    /\ node \in {"analyze_and_route_query", "ask_for_more_info",
                "respond_to_general_query", "create_research_plan", "respond"}
    /\ node' = on_failure(node)
    /\ UNCHANGED <<router, steps, messages, documents, researchers, trace,
                   context, turn, update>>
    /\ UNCHANGED notGraphVars

\* researcher graph: the model call of generate_queries raises; the
\* researcher's ainvoke raises, and so does the gather that awaits it
GenerateQueriesFails(i) ==
    /\ node \in {"gather", "ABORTED"}
    /\ researchers[i].at = "generate_queries"
    /\ researchers' = [researchers EXCEPT ![i].at = "FAILED"]
    /\ node' = on_failure(node)
    /\ UNCHANGED <<router, steps, messages, documents, trace, context, turn, update>>
    /\ UNCHANGED notGraphVars

\* researcher graph: the retriever call of one retrieve_documents task raises
RetrieveDocumentsFails(i, k) ==
    /\ node \in {"gather", "ABORTED"}
    /\ researchers[i].at = "retrieve_documents"
    /\ ~researchers[i].tasks[k].done
    /\ researchers' = [researchers EXCEPT ![i].at = "FAILED"]
    /\ node' = on_failure(node)
    /\ UNCHANGED <<router, steps, messages, documents, trace, context, turn, update>>
    /\ UNCHANGED notGraphVars

\* a graph compiled without a checkpointer: every turn starts from
\* AgentState's defaults
NewTurn_fresh ==
    /\ node \in {"END", "ABORTED"}
    /\ turn < MaxTurns
    /\ turn' = turn + 1
    /\ messages' = <<"human">>
    /\ node' = edge_START
    /\ trace' = <<>>
    /\ researchers' = <<>>
    /\ context' = <<>>
    /\ update' = <<>>
    /\ router' = [type |-> "general"]
    /\ steps' = <<>>
    /\ documents' = <<>>
    /\ UNCHANGED notGraphVars

\* the next user message on the thread: the checkpointer hands the state of
\* the last turn, ended or aborted, to the new one
NewTurn ==
    /\ node \in {"END", "ABORTED"}
    /\ turn < MaxTurns
    /\ turn' = turn + 1
    /\ messages' = Append(messages, "human")
    /\ node' = edge_START
    /\ trace' = <<>>
    /\ researchers' = <<>>
    /\ context' = <<>>
    /\ update' = <<>>
    /\ UNCHANGED <<router, steps, documents>>
    /\ UNCHANGED notGraphVars

\* AgentState's defaults and the first user message
GraphInit ==
    /\ node = edge_START
    /\ router = [type |-> "general"]
    /\ steps = <<>>
    /\ messages = <<"human">>
    /\ documents = <<>>
    /\ researchers = <<>>
    /\ trace = <<>>
    /\ context = <<>>
    /\ turn = 1
    /\ update = <<>>

\* the steps of a turn in which every model and retriever call returns
GraphReturns ==
    \/ AnalyzeAndRouteQuery
    \/ AskForMoreInfo
    \/ RespondToGeneralQuery
    \/ CreateResearchPlan
    \/ ConductResearch
    \/ \E i \in DOMAIN researchers : GenerateQueries(i)
    \/ \E i \in DOMAIN researchers :
        \E k \in DOMAIN researchers[i].tasks : RetrieveDocuments(i, k)
    \/ \E i \in DOMAIN researchers : ResearcherEnd(i)
    \/ ConductResearchReturn
    \/ respond
    \/ NewTurn

\* the calls that raise
GraphFails ==
    \/ ModelCallFails
    \/ \E i \in DOMAIN researchers : GenerateQueriesFails(i)
    \/ \E i \in DOMAIN researchers :
        \E k \in DOMAIN researchers[i].tasks : RetrieveDocumentsFails(i, k)

GraphNext == GraphReturns \/ GraphFails

----------------------------------------------------------------------------
(* ModelManager and RetrieverManager: a dict from key to handle.  The get  *)
(* methods are plain functions called from coroutines on one event loop.   *)

Managers == {"ModelManager", "RetrieverManager"}
Tasks == 1..MaxTasks

\* fully_specified_name of a chat model
ModelNames == {"k1", "k2"}

\* search_kwargs: a dict, here the sequence of its items in insertion order
KwKeys == {"filter", "k"}
KwItems == [key : KwKeys, value : {1}]
SearchKwargs ==
    {kw \in SeqsUpTo(KwItems, Cardinality(KwKeys)) :
        \A i, j \in DOMAIN kw : i # j => kw[i].key # kw[j].key}

\* config["configurable"]: the fields of BaseConfiguration and the others
\* a run carries (llm_model, thread_id)
Configurables ==
    [retriever_provider : {"elastic-local", "milvus"},
     embedding_model : {"ollama/bge-m3:latest", "e2"},
     search_kwargs : SearchKwargs,
     llm_model : {"ollama/qwen3:4b", "m2"},
     thread_id : {"1", "2"}]
DefaultConfigurable ==
    [retriever_provider |-> "elastic-local",
     embedding_model |-> "ollama/bge-m3:latest",
     search_kwargs |-> <<[key |-> "k", value |-> 1], [key |-> "filter", value |-> 1]>>,
     llm_model |-> "ollama/qwen3:4b",
     thread_id |-> "1"]
\* the configurations that differ from the default one in at most one field
Configs ==
    {c \in Configurables :
        Cardinality({f \in DOMAIN c : c[f] # DefaultConfigurable[f]}) <= 1}
\* two configurations with different keys, for the runs that are about the
\* cache and not about the key
CacheConfigs ==
    {c \in Configs : c.search_kwargs = DefaultConfigurable.search_kwargs
                      /\ c.llm_model = DefaultConfigurable.llm_model
                      /\ c.thread_id = DefaultConfigurable.thread_id
                      /\ c.retriever_provider = DefaultConfigurable.retriever_provider}
NoConfig == [retriever_provider |-> "", embedding_model |-> "",
             search_kwargs |-> <<>>, llm_model |-> "", thread_id |-> ""]

\* BaseConfiguration.from_runnable_config: the configurable's entries that
\* are fields of BaseConfiguration
from_runnable_config(config) ==
    [retriever_provider |-> config.retriever_provider,
     embedding_model |-> config.embedding_model,
     search_kwargs |-> config.search_kwargs]

\* the items of a dict in the order of their keys ("filter" < "k")
RECURSIVE SortedItems(_, _)
SortedItems(kw, order) ==
    IF order = <<>> THEN <<>>
    ELSE (IF \E j \in DOMAIN kw : kw[j].key = Head(order)
          THEN <<kw[CHOOSE j \in DOMAIN kw : kw[j].key = Head(order)]>>
          ELSE <<>>) \o SortedItems(kw, Tail(order))

\* json.dumps of the items of a dict with int values
RECURSIVE dumps_items(_)
dumps_items(items) ==
    IF items = <<>> THEN ""
    ELSE "\"" \o Head(items).key \o "\": " \o ToString(Head(items).value)
         \o (IF Tail(items) = <<>> THEN "" ELSE ", ")
         \o dumps_items(Tail(items))

\* json.dumps(config_dict) without sort_keys: the dicts in insertion order
json_dumps_unsorted(configuration) ==
    "{\"retriever_provider\": \"" \o configuration.retriever_provider
    \o "\", \"embedding_model\": \"" \o configuration.embedding_model
    \o "\", \"search_kwargs\": {" \o dumps_items(configuration.search_kwargs) \o "}}"

\* json.dumps(config_dict, sort_keys=True)
json_dumps(configuration) ==
    "{\"embedding_model\": \"" \o configuration.embedding_model
    \o "\", \"retriever_provider\": \"" \o configuration.retriever_provider
    \o "\", \"search_kwargs\": {"
    \o dumps_items(SortedItems(configuration.search_kwargs, <<"filter", "k">>))
    \o "}}"

\* hashlib.md5(s.encode()).hexdigest(): a deterministic, collision-free
\* function of the string
hexdigest(s) == "md5:" \o s

\* RetrieverManager._generate_config_key
generate_config_key(config) == hexdigest(json_dumps(from_runnable_config(config)))

\* the keys of the two dicts
Keys == ModelNames \cup {generate_config_key(c) : c \in Configs}
\* no entry for the key
NoHandle == 0

\* `fully_specified_name not in self._models`, `config_key not in self._retrievers`
not_cached_always(c, m, k) == TRUE
not_cached(c, m, k) == c[m][k] = NoHandle

\* get_model and get_retriever hold no await between the membership test
\* and the store: load_chat_model and _create_retriever are called, not
\* awaited, so no other task runs in between
yields_in_get_await == TRUE
yields_in_get == FALSE

NoGet == [pc |-> "idle", manager |-> "", key |-> "", config |-> NoConfig,
          got |-> NoHandle, constructed |-> FALSE]

\* a task calls get_model(name) / get_retriever(config): the membership test,
\* and on a hit the return of the cached handle
GetCall(t, m, k, c) ==
    /\ loop = 0
    /\ callers[t].pc # "constructing"
    /\ IF not_cached(cache, m, k)
       THEN /\ built < MaxBuilds
            /\ callers' = [callers EXCEPT ![t] =
                    [pc |-> "constructing", manager |-> m, key |-> k,
                     config |-> c, got |-> NoHandle, constructed |-> FALSE]]
            /\ loop' = IF yields_in_get THEN 0 ELSE t
       ELSE /\ callers' = [callers EXCEPT ![t] =
                    [pc |-> "returned", manager |-> m, key |-> k,
                     config |-> c, got |-> cache[m][k], constructed |-> FALSE]]
            /\ loop' = 0
    /\ UNCHANGED <<cache, built, made>>
    /\ UNCHANGED notCacheVars

\* model_manager.get_model(fully_specified_name)
get_model(t, name) == GetCall(t, "ModelManager", name, NoConfig)

\* retriever_manager.get_retriever(config)
get_retriever(t, config) ==
    GetCall(t, "RetrieverManager", generate_config_key(config), config)

\* on a miss: the handle is constructed, stored under the key and returned
GetConstruct(t) ==
    /\ callers[t].pc = "constructing"
    /\ loop = IF yields_in_get THEN 0 ELSE t
    /\ built < MaxBuilds
    /\ LET m == callers[t].manager
           k == callers[t].key
       IN  /\ built' = built + 1
           /\ cache' = [cache EXCEPT ![m][k] = built + 1]
           /\ made' = [made EXCEPT ![m][k] = @ + 1]
           /\ callers' = [callers EXCEPT ![t].pc = "returned",
                                         ![t].got = cache'[m][k],
                                         ![t].constructed = TRUE]
    /\ loop' = 0
    /\ UNCHANGED notCacheVars

\* a get that stores an entry for the key before the construction raises
GetConstructFails_stores(t) ==
    /\ callers[t].pc = "constructing"
    /\ loop = IF yields_in_get THEN 0 ELSE t
    /\ built < MaxBuilds
    /\ built' = built + 1
    /\ cache' = [cache EXCEPT ![callers[t].manager][callers[t].key] = built + 1]
    /\ callers' = [callers EXCEPT ![t].pc = "raised"]
    /\ loop' = 0
    /\ UNCHANGED made
    /\ UNCHANGED notCacheVars

\* on a miss: load_chat_model / _create_retriever raises, before the store
GetConstructFails(t) ==
    /\ callers[t].pc = "constructing"
    /\ loop = IF yields_in_get THEN 0 ELSE t
    /\ callers' = [callers EXCEPT ![t].pc = "raised"]
    /\ loop' = 0
    /\ UNCHANGED <<cache, built, made>>
    /\ UNCHANGED notCacheVars

\* clear_cache: self._models.clear() / self._retrievers.clear(); the calls
\* that ended before it are no longer followed
ClearCache(m) ==
    /\ loop = 0
    /\ \E k \in Keys : cache[m][k] # NoHandle
    /\ cache' = [cache EXCEPT ![m] = [k \in Keys |-> NoHandle]]
    /\ made' = [made EXCEPT ![m] = [k \in Keys |-> 0]]
    /\ callers' = [t \in Tasks |->
            IF callers[t].manager = m /\ callers[t].pc \in {"returned", "raised"}
            THEN NoGet ELSE callers[t]]
    /\ UNCHANGED <<built, loop>>
    /\ UNCHANGED notCacheVars

\* _models = {} and _retrievers = {} of the two singletons
CacheInit ==
    /\ cache = [m \in Managers |-> [k \in Keys |-> NoHandle]]
    /\ built = 0
    /\ made = [m \in Managers |-> [k \in Keys |-> 0]]
    /\ callers = [t \in Tasks |-> NoGet]
    /\ loop = 0

CacheNext ==
    \/ \E t \in Tasks, name \in ModelNames : get_model(t, name)
    \/ \E t \in Tasks, c \in CacheConfigs : get_retriever(t, c)
    \/ \E t \in Tasks : GetConstruct(t)
    \/ \E t \in Tasks : GetConstructFails(t)
    \/ \E m \in Managers : ClearCache(m)

\* two tasks, to compare the keys of two calls
KeyTasks == {1, 2}

\* get_retriever called with any of the configurations
KeyNext ==
    \/ \E t \in KeyTasks, c \in Configs : get_retriever(t, c)
    \/ \E t \in KeyTasks : GetConstruct(t)
    \/ \E t \in KeyTasks : GetConstructFails(t)
    \/ ClearCache("RetrieverManager")

----------------------------------------------------------------------------
(* The CRUD managers of the three vector stores, and the construction of   *)
(* a retriever.                                                            *)

Backends == {"elasticsearch", "milvus", "mongodb"}
\* configuration.retriever_provider, as each manager is used
ProvidersOf(b) ==
    IF b = "elasticsearch" THEN {"elastic-local", "elastic"}
    ELSE IF b = "milvus" THEN {"milvus"}
    ELSE {"mongodb", "mongodb-local"}
EnvVars == {"ELASTICSEARCH_API_KEY", "MONGODB_URI"}

NoManager == [backend |-> "", provider |-> "", vector_store |-> FALSE]
NoResult == [n |-> 0, op |-> "", provider |-> "", outcome |-> "", value |-> 0,
             before |-> {}]

\* ElasticsearchCRUDManager._get_connection_options
get_connection_options(p, env) ==
    IF p # "elastic-local" /\ "ELASTICSEARCH_API_KEY" \notin env
    THEN "ValueError" ELSE "ok"

\* _get_vector_store of the three managers: the error it raises, or "ok"
get_vector_store(m, env) ==
    IF m.vector_store THEN "ok"
    ELSE IF m.backend = "elasticsearch" THEN get_connection_options(m.provider, env)
    ELSE IF m.backend = "mongodb"
        THEN IF m.provider # "mongodb-local" /\ "MONGODB_URI" \notin env
             THEN "KeyError" ELSE "ok"
    ELSE "ok"

\* __init__ of the three managers: stores the configuration, makes the text
\* encoder, sets _vector_store to None
crud_init(b, p, env) == "ok"

\* Literal["elastic-local", "elastic", "pinecone", "mongodb"], the set the
\* error message of _create_retriever gives as expected
retriever_provider_args == {"elastic-local", "elastic", "pinecone", "mongodb"}
\* the values retriever_provider is given: the dataclass does not check them
Providers == retriever_provider_args \cup {"milvus", "mongodb-local"}

\* make_retriever: _create_retriever's choice among make_elastic_retriever,
\* make_milvus_retriever and make_mongodb_retriever, or its ValueError
make_retriever(p, env) ==
    IF p \in {"elastic", "elastic-local"} THEN get_connection_options(p, env)
    ELSE IF p = "milvus" THEN "ok"
    ELSE IF p = "mongodb"
        THEN IF "MONGODB_URI" \notin env THEN "KeyError" ELSE "ok"
    ELSE "ValueError"

\* delete_documents(ids): the outcome and the store after it
delete_documents_silent(m, env, st, ids) ==
    IF m.backend = "milvus" THEN [outcome |-> "ok", store |-> st]
    ELSE IF get_vector_store(m, env) # "ok"
        THEN [outcome |-> get_vector_store(m, env), store |-> st]
    ELSE [outcome |-> "ok", store |-> st \ ids]
delete_documents(m, env, st, ids) ==
    IF m.backend = "milvus" THEN [outcome |-> "NotImplementedError", store |-> st]
    ELSE IF get_vector_store(m, env) # "ok"
        THEN [outcome |-> get_vector_store(m, env), store |-> st]
    ELSE [outcome |-> "ok", store |-> st \ ids]

\* the call is the next one, made under provider p, and it ended with this
\* outcome and value
Record(op, p, o, v) ==
    result' = [n |-> result.n + 1, op |-> op, provider |-> p, outcome |-> o,
               value |-> v, before |-> store]

CanCrud == manager.backend # "" /\ result.n < MaxOps

\* XxxCRUDManager(configuration)
CrudConstruct ==
    /\ manager.backend = ""
    /\ \E b \in Backends : \E p \in ProvidersOf(b) :
        /\ Record("construct", p, crud_init(b, p, environ), 0)
        /\ manager' = IF crud_init(b, p, environ) = "ok"
                       THEN [backend |-> b, provider |-> p, vector_store |-> FALSE]
                       ELSE manager
    /\ UNCHANGED <<environ, store, next_id>>
    /\ UNCHANGED notCrudVars

\* make_retriever for a configuration, outside the cache
MakeRetriever ==
    /\ manager.backend = ""
    /\ result.n < MaxOps
    /\ \E p \in Providers :
        Record("make_retriever", p, make_retriever(p, environ), 0)
    /\ UNCHANGED <<environ, manager, store, next_id>>
    /\ UNCHANGED notCrudVars

AddDocuments ==
    /\ CanCrud
    /\ \E n \in 1..MaxAdd :
        /\ next_id + n <= MaxIds
        /\ IF get_vector_store(manager, environ) # "ok"
           THEN /\ Record("add_documents", manager.provider, get_vector_store(manager, environ), 0)
                /\ UNCHANGED <<manager, store, next_id>>
           ELSE /\ Record("add_documents", manager.provider, "ok", n)
                /\ manager' = [manager EXCEPT !.vector_store = TRUE]
                /\ store' = store \cup ((next_id + 1)..(next_id + n))
                /\ next_id' = next_id + n
    /\ UNCHANGED environ
    /\ UNCHANGED notCrudVars

DeleteDocuments ==
    /\ CanCrud
    /\ \E ids \in SUBSET (1..MaxIds) :
        LET r == delete_documents(manager, environ, store, ids)
        IN  /\ Record("delete_documents", manager.provider, r.outcome, 0)
            /\ store' = r.store
            /\ manager' = IF r.outcome = "ok" /\ manager.backend # "milvus"
                           THEN [manager EXCEPT !.vector_store = TRUE]
                           ELSE manager
    /\ UNCHANGED <<environ, next_id>>
    /\ UNCHANGED notCrudVars

\* the raw client count_documents and clear_documents go through (the
\* Elasticsearch client, pymilvus, pymongo; never _vector_store): the
\* error making it raises, or "ok"
get_client(m, env) ==
    IF m.backend = "elasticsearch" THEN get_connection_options(m.provider, env)
    ELSE "ok"

\* count_documents(): the outcome and the number returned
count_documents(m, env, st) ==
    IF get_client(m, env) # "ok"
    THEN [outcome |-> get_client(m, env), value |-> 0]
    ELSE [outcome |-> "ok", value |-> Cardinality(st)]

\* a clear that deletes nothing
clear_documents_keeps(m, env, st) ==
    IF get_client(m, env) # "ok"
    THEN [outcome |-> get_client(m, env), store |-> st]
    ELSE [outcome |-> "ok", store |-> st]

\* clear_documents(): delete_by_query match_all, collection.delete of every
\* entity, delete_many({}); the outcome and the store after it
clear_documents(m, env, st) ==
    IF get_client(m, env) # "ok"
    THEN [outcome |-> get_client(m, env), store |-> st]
    ELSE [outcome |-> "ok", store |-> {}]

CountDocuments ==
    /\ CanCrud
    /\ LET r == count_documents(manager, environ, store)
       IN  Record("count_documents", manager.provider, r.outcome, r.value)
    /\ UNCHANGED <<environ, manager, store, next_id>>
    /\ UNCHANGED notCrudVars

ClearDocuments ==
    /\ CanCrud
    /\ LET r == clear_documents(manager, environ, store)
       IN  /\ Record("clear_documents", manager.provider, r.outcome, 0)
           /\ store' = r.store
    /\ UNCHANGED <<environ, manager, next_id>>
    /\ UNCHANGED notCrudVars

\* the process environment, a manager yet to be constructed, an empty store
CrudInitIn(envs) ==
    /\ environ \in envs
    /\ manager = NoManager
    /\ store = {}
    /\ next_id = 0
    /\ result = NoResult

CrudNext ==
    \/ CrudConstruct
    \/ MakeRetriever
    \/ AddDocuments
    \/ DeleteDocuments
    \/ CountDocuments
    \/ ClearDocuments

----------------------------------------------------------------------------
(* The index graph: START, index_docs, END.                                *)

\* the documents an input state holds
IndexedDocs == {Document("a", NoUuid), Document("b", "u1")}

\* the file at the path of docs_file: missing, not JSON, or a JSON list
IndexFiles ==
    {[status |-> "missing", content |-> NoCall],
     [status |-> "invalid", content |-> NoCall],
     [status |-> "json", content |->
        ListNew(<<[kind |-> "dict", has_pc |-> TRUE, page_content |-> "a",
                   uuid |-> NoUuid]>>)],
     [status |-> "json", content |->
        ListNew(<<[kind |-> "dict", has_pc |-> FALSE, page_content |-> "",
                   uuid |-> "u1"]>>)]}

NoIndex == [pc |-> "idle", config |-> FALSE, input |-> <<>>,
            file |-> [status |-> "missing", content |-> NoCall],
            documents |-> ListNew(<<>>), docs |-> <<>>, retriever |-> FALSE,
            added |-> <<>>, returned |-> NoCall, raised |-> ""]

\* configuration.docs_file: IndexConfiguration is declared without
\* @dataclass, so docs_file is no field of the configuration and the
\* attribute is the class attribute, the dataclasses.Field object
docs_file(configuration) == "<Field>"

\* open(path): the exception it raises, or "ok"
open(path, file) ==
    IF path = "<Field>" THEN "TypeError"
    ELSE IF file.status = "missing" THEN "FileNotFoundError"
    ELSE "ok"

\* index_docs, `if not docs:` branch: docs after it, or the exception that
\* leaves it (FileNotFoundError and JSONDecodeError are caught)
load_docs(configuration, file) ==
    IF open(docs_file(configuration), file) = "TypeError"
        THEN [raised |-> "TypeError", docs |-> <<>>]
    ELSE IF open(docs_file(configuration), file) = "FileNotFoundError"
        THEN [raised |-> "", docs |-> <<>>]
    ELSE IF file.status = "invalid"
        THEN [raised |-> "", docs |-> <<>>]
    ELSE IF reduce_docs(<<>>, file.content).raised
        THEN [raised |-> "ValidationError", docs |-> <<>>]
    ELSE [raised |-> "", docs |-> reduce_docs(<<>>, file.content).docs]

\* IndexState.documents is Annotated with a description, not with a
\* reducer: the channel keeps the last value written
IndexState_documents(old, value) == value

\* index_graph.ainvoke({"documents": ..., "messages": []}, config), or
\* index_docs called without a config; the graph has no checkpointer, so
\* each run starts from its input
IndexInvoke ==
    /\ index.pc \in {"idle", "END", "ABORTED"}
    /\ \E cfg \in BOOLEAN, input \in SeqsUpTo(IndexedDocs, MaxIndexed),
          file \in IndexFiles :
        index' = [NoIndex EXCEPT !.pc = "index_docs", !.config = cfg,
                                 !.input = input, !.file = file,
                                 !.documents = ListNew(AsItems(input))]
    /\ UNCHANGED notIndexVars

\* index_docs up to its await, or to the end when there is nothing to add
IndexDocs ==
    /\ index.pc = "index_docs"
    /\ IF ~index.config
       THEN index' = [index EXCEPT !.pc = "ABORTED", !.raised = "ValueError"]
       ELSE LET loaded == IF index.documents.items = <<>>
                          THEN load_docs(index.config, index.file)
                          ELSE [raised |-> "", docs |-> index.input]
            IN  IF loaded.raised # ""
                THEN index' = [index EXCEPT !.pc = "ABORTED",
                                            !.raised = loaded.raised]
                ELSE IF loaded.docs # <<>>
                THEN \E made_retriever \in BOOLEAN :
                        index' = [index EXCEPT
                            !.docs = loaded.docs,
                            !.retriever = TRUE,
                            !.pc = IF made_retriever THEN "aadd_documents"
                                   ELSE "ABORTED",
                            !.raised = IF made_retriever THEN ""
                                       ELSE "make_retriever"]
                ELSE index' = [index EXCEPT
                        !.pc = "END",
                        !.returned = StrNew("delete"),
                        !.documents = IndexState_documents(@, StrNew("delete"))]
    /\ UNCHANGED notIndexVars

\* await retriever.aadd_documents(docs) returns; index_docs returns
\* {"documents": "delete"}
IndexDocsAdded ==
    /\ index.pc = "aadd_documents"
    /\ index' = [index EXCEPT
            !.added = index.docs,
            !.pc = "END",
            !.returned = StrNew("delete"),
            !.documents = IndexState_documents(@, StrNew("delete"))]
    /\ UNCHANGED notIndexVars

\* await retriever.aadd_documents(docs) raises: logged and raised again
IndexDocsAddFails ==
    /\ index.pc = "aadd_documents"
    /\ index' = [index EXCEPT !.pc = "ABORTED", !.raised = "aadd_documents"]
    /\ UNCHANGED notIndexVars

IndexInit == index = NoIndex

IndexNext ==
    \/ IndexInvoke
    \/ IndexDocs
    \/ IndexDocsAdded
    \/ IndexDocsAddFails

ReducerInit ==
    /\ docs = <<>>
    /\ existing = <<>>
    /\ new = NoCall
    /\ outcome = "init"
    /\ after = NoArgs

ReducerAnyInit ==
    /\ docs \in SeqsUpTo(ExistingDocs, MaxExisting)
    /\ existing = <<>>
    /\ new = NoCall
    /\ outcome = "init"
    /\ after = NoArgs

ReducerNext == ReduceString \/ ReduceList \/ ReduceOther \/ Settle

----------------------------------------------------------------------------
(* Specifications.                                                         *)

Init == GraphInit /\ ReducerInit /\ CacheInit /\ CrudInitIn({{}}) /\ IndexInit
InitReduceAny ==
    GraphInit /\ ReducerAnyInit /\ CacheInit /\ CrudInitIn({{}}) /\ IndexInit
InitCrud ==
    GraphInit /\ ReducerInit /\ CacheInit /\ CrudInitIn(SUBSET EnvVars) /\ IndexInit

\* turns of the main graph on one thread
Spec == Init /\ [][GraphNext]_vars

\* turns in which every model and retriever call returns: the event loop
\* runs a step while one can run
SpecReturns == Init /\ [][GraphReturns]_vars /\ WF_vars(GraphReturns)

\* tasks that use the model and retriever managers
SpecCache == Init /\ [][CacheNext]_vars

\* tasks that ask the retriever manager for retrievers of many configurations
SpecKey == Init /\ [][KeyNext]_vars

\* runs of the index graph
SpecIndex == Init /\ [][IndexNext]_vars

\* calls on a CRUD manager
SpecCrud == InitCrud /\ [][CrudNext]_vars

\* reduce_docs called again and again, from the empty collection
SpecReduce == Init /\ [][ReducerNext]_vars

\* reduce_docs called on any collection
SpecReduceAny == InitReduceAny /\ [][ReducerNext]_vars

----------------------------------------------------------------------------
(* Properties of reduce_docs.                                              *)

Called == outcome # "init"
Returned == outcome = "returned"
\* the documents the last call put behind `existing`
Appended == SubSeq(docs, Len(existing) + 1, Len(docs))
OnlyKinds(items, kinds) == \A k \in DOMAIN items : items[k].kind \in kinds

\* C1: after any sequence of reduce_docs calls that starts from the empty
\* collection, no two documents of the collection have the same uuid.
C1_NoDuplicateIds ==
    \A i, j \in DOMAIN docs : i # j => docs[i].uuid # docs[j].uuid

\* C2: in the list path an item is appended only if its id is neither among
\* the ids of `existing` nor among the ids accepted earlier in the same call.
C2_ListAppendsOnlyNewIds ==
    (new.kind = "list" /\ Returned) =>
        /\ \A i \in DOMAIN Appended : Appended[i].uuid \notin existing_ids(existing)
        /\ \A i, j \in DOMAIN Appended : i # j => Appended[i].uuid # Appended[j].uuid

\* C3: reduce_docs(existing, delete signal) returns the empty collection,
\* whatever `existing` holds.
C3_DeleteResets ==
    (Called /\ new.kind = "str" /\ new.text = "delete") =>
        Returned /\ docs = <<>>

C3_Witness ==
    /\ Called /\ new.kind = "str" /\ new.text = "delete"
    /\ Len(existing) >= 2
    /\ docs = <<>>

\* C4, as claimed: for every single string given as `new`, the result is
\* `existing` followed by one document for that string.
C4_EveryStringAppends ==
    (Called /\ new.kind = "str") =>
        /\ Returned
        /\ docs = existing \o <<[page_content |-> new.text,
                                 uuid |-> "md5:" \o new.text]>>

\* C4, amended: for every single string other than "delete" given as `new`,
\* the result is `existing`, unchanged and in order, followed by exactly one
\* document whose content is the string and whose uuid is derived from it,
\* also when `existing` already holds that uuid.
C4_StringAppends ==
    (Called /\ new.kind = "str" /\ new.text # "delete") =>
        /\ Returned
        /\ Len(docs) = Len(existing) + 1
        /\ docs = existing \o <<[page_content |-> new.text,
                                 uuid |-> "md5:" \o new.text]>>

C4_Witness ==
    /\ Called /\ new.kind = "str" /\ new.text = "a"
    /\ \E i \in DOMAIN existing : existing[i].uuid = "md5:a"
    /\ Len(docs) = Len(existing) + 1
    /\ docs[Len(docs)].uuid = "md5:a"

\* C5: for every list L of dict or Document items, reduce_docs([], L) has no
\* duplicate ids, as many documents as L has distinct content hashes, and
\* reducing L into it once more gives it back.
C5_IdempotentReindex ==
    (Called /\ new.kind = "list" /\ OnlyKinds(new.items, {"dict", "doc"})
        /\ existing = <<>>) =>
        /\ Returned
        /\ \A i, j \in DOMAIN docs : i # j => docs[i].uuid # docs[j].uuid
        /\ Len(docs) = Cardinality({"md5:" \o new.items[k].page_content :
                                        k \in DOMAIN new.items})
        /\ reduce_docs(docs, new) = [raised |-> FALSE, docs |-> docs]

\* the id of an item as stated: its metadata uuid if it has one, else the id
\* derived from its page_content
ClaimedId(item) ==
    IF item.uuid \in {NoUuid, EmptyUuid} THEN "md5:" \o item.page_content
    ELSE item.uuid

\* the indices of the first occurrence of each id that is not in `existing`
FirstNew(items, ex) ==
    {k \in DOMAIN items :
        /\ \A d \in DOMAIN ex : ex[d].uuid # ClaimedId(items[k])
        /\ \A h \in 1..(k - 1) : ClaimedId(items[h]) # ClaimedId(items[k])}

\* C6: for every `existing` and every list of dict items, the result is
\* `existing` followed, in input order, by one document for the first
\* occurrence of each dict whose id is not in `existing`.
C6_DictBatchMerge ==
    (Called /\ new.kind = "list" /\ OnlyKinds(new.items, {"dict"})) =>
        /\ Returned
        /\ SubSeq(docs, 1, Len(existing)) = existing
        /\ Len(docs) = Len(existing) + Cardinality(FirstNew(new.items, existing))
        /\ \A n \in DOMAIN Appended :
            \E k \in FirstNew(new.items, existing) :
                /\ Cardinality({h \in FirstNew(new.items, existing) : h <= k}) = n
                /\ Appended[n] = [page_content |-> new.items[k].page_content,
                                  uuid |-> ClaimedId(new.items[k])]

----------------------------------------------------------------------------
(* Properties of the main graph.                                           *)

IsPrefix(s, t) == Len(s) <= Len(t) /\ \A i \in DOMAIN s : s[i] = t[i]
Ran(n) == \E i \in DOMAIN trace : trace[i] = n
\* the turn's classification: the router the routing step of this turn wrote
Classified(t) == trace # <<>> /\ router.type = t
\* the assistant messages appended since the turn's user message
AiThisTurn ==
    Cardinality({i \in DOMAIN messages :
        /\ messages[i] = "ai"
        /\ \A j \in DOMAIN messages : j > i => messages[j] # "human"})

\* C7: right after the routing step, the next step is the one mandated for
\* the classification: more-info to ask_for_more_info, general to
\* respond_to_general_query, rag-research to create_research_plan (until
\* that step runs, or its model call raises and the turn is aborted).
C7_RouteQuery ==
    (trace = <<"analyze_and_route_query">> /\ node # "ABORTED") =>
        /\ router.type \in {"more-info", "general", "rag-research"}
        /\ router.type = "more-info" => node = "ask_for_more_info"
        /\ router.type = "general" => node = "respond_to_general_query"
        /\ router.type = "rag-research" => node = "create_research_plan"

C7_Witness ==
    /\ trace = <<"analyze_and_route_query">>
    /\ router.type = "more-info"
    /\ node = "ask_for_more_info"
    /\ turn = 2

ResearchOrder == <<"analyze_and_route_query", "create_research_plan",
                   "conduct_research", "respond">>

\* C8: in a turn classified rag-research the steps run in the order routing,
\* planning, researching, responding, and when the turn has ended the
\* responding step has run exactly once, whatever the length of the plan.
C8_ResearchFlow ==
    Classified("rag-research") =>
        /\ IsPrefix(trace, ResearchOrder)
        /\ node = "END" =>
            /\ trace = ResearchOrder
            /\ Cardinality({i \in DOMAIN trace : trace[i] = "respond"}) = 1
            /\ AiThisTurn = 1

C8_Witness ==
    /\ Classified("rag-research")
    /\ node = "END"
    /\ DOMAIN steps = {}
    /\ DOMAIN researchers = {}
    /\ trace = ResearchOrder

\* C9: in a turn classified more-info or general only the routing step and
\* the one answering step run, no researcher or retrieval task is
\* dispatched, and the turn ends with exactly one assistant message appended
\* (a turn whose model call raises is aborted and does not end).
C9_DirectFlow ==
    \A t \in {"more-info", "general"} :
        Classified(t) =>
            LET answer == IF t = "more-info" THEN "ask_for_more_info"
                          ELSE "respond_to_general_query"
            IN  /\ IsPrefix(trace, <<"analyze_and_route_query", answer>>)
                /\ node \in {answer, "END", "ABORTED"}
                /\ DOMAIN researchers = {}
                /\ ~Ran("create_research_plan") /\ ~Ran("conduct_research")
                /\ ~Ran("respond")
                /\ node = "END" <=> AiThisTurn = 1
                /\ node \in {answer, "ABORTED"} <=> AiThisTurn = 0

C9_Witness ==
    /\ Classified("more-info")
    /\ node = "END"
    /\ trace = <<"analyze_and_route_query", "ask_for_more_info">>
    /\ AiThisTurn = 1
    /\ turn = 2
    /\ documents # <<>>

\* the documents the response is, or is about to be, built from
ResponseDocs == IF Ran("respond") THEN context ELSE documents

\* C10: when the responding step is due or has run, one researcher per plan
\* step has been invoked and has returned, every retrieval task dispatched
\* in it has completed, and the id of every document a task returned is in
\* the collection the response is built from.
C10_RespondAfterResearch ==
    (node = "respond" \/ Ran("respond")) =>
        /\ Len(researchers) = Len(steps)
        /\ \A i \in DOMAIN researchers :
            /\ researchers[i].at = "END"
            /\ Len(researchers[i].tasks) = Len(researchers[i].queries)
            /\ \A k \in DOMAIN researchers[i].tasks :
                /\ researchers[i].tasks[k].done
                /\ \A d \in DOMAIN researchers[i].tasks[k].response :
                    ClaimedId(researchers[i].tasks[k].response[d])
                        \in existing_ids(ResponseDocs)

C10_Witness ==
    /\ Ran("respond")
    /\ Len(researchers) = 2
    /\ Len(researchers[1].tasks) = 2
    /\ researchers[1].tasks[1].response # <<>>
    /\ researchers[1].tasks[2].response # <<>>
    /\ researchers[1].tasks[1].response # researchers[1].tasks[2].response
    /\ researchers[2].tasks # <<>>
    /\ Len(context) = 2

TerminalSteps == {"ask_for_more_info", "respond_to_general_query", "respond"}

\* the ids of the documents of a list
IdsOf(items) == {ClaimedId(items[d]) : d \in DOMAIN items}
SameResponses(r, q) ==
    /\ Len(r.tasks) = Len(q.tasks)
    /\ \A k \in DOMAIN r.tasks : r.tasks[k].response = q.tasks[k].response

\* C11: the researching step invokes one researcher per plan step, on that
\* step; a researcher whose query generation gave N queries has exactly N
\* retrieval tasks, the k-th on the k-th query; when it has ended its
\* documents carry exactly the ids of the documents its tasks returned
\* (none for N = 0), and two researchers whose tasks returned the same
\* responses have the same documents, whatever order the tasks completed in.
C11_FanOut ==
    /\ Ran("conduct_research") =>
        /\ Len(researchers) = Len(steps)
        /\ \A i \in DOMAIN researchers : researchers[i].question = steps[i]
    /\ \A i \in DOMAIN researchers :
        /\ researchers[i].at \in {"retrieve_documents", "END"} =>
            /\ Len(researchers[i].tasks) = Len(researchers[i].queries)
            /\ \A k \in DOMAIN researchers[i].tasks :
                researchers[i].tasks[k].query = researchers[i].queries[k]
        /\ researchers[i].at = "END" =>
            /\ existing_ids(researchers[i].documents) =
                UNION {IdsOf(researchers[i].tasks[k].response) :
                            k \in DOMAIN researchers[i].tasks}
            /\ DOMAIN researchers[i].queries = {} =>
                /\ DOMAIN researchers[i].tasks = {}
                /\ DOMAIN researchers[i].documents = {}
    /\ \A i, j \in DOMAIN researchers :
        (/\ researchers[i].at = "END" /\ researchers[j].at = "END"
         /\ SameResponses(researchers[i], researchers[j]))
            => researchers[i].documents = researchers[j].documents

C11_Witness ==
    /\ Len(researchers) = 2
    /\ researchers[1].at = "END" /\ researchers[2].at = "END"
    /\ Len(researchers[1].tasks) = 2
    /\ SameResponses(researchers[1], researchers[2])
    /\ researchers[1].tasks[1].response # <<>>
    /\ researchers[1].tasks[2].response # <<>>
    /\ researchers[1].tasks[1].response # researchers[1].tasks[2].response
    /\ researchers[1].tasks[1].completed = 1
    /\ researchers[2].tasks[1].completed = 2
    /\ Len(researchers[1].documents) = 2

\* C12: a researcher whose model or retriever call raised means the turn is
\* aborted; an aborted turn has no assistant message; the step that aborts
\* the turn and every step while it is aborted leave trace, messages,
\* documents, steps and router as they were (no later step runs, nothing
\* is merged); the only way out of an aborted turn is the next turn, and a
\* failed researcher is not run again.
C12_FailureAborts ==
    /\ []((\E i \in DOMAIN researchers : researchers[i].at = "FAILED")
            => node = "ABORTED")
    /\ [](node = "ABORTED" =>
            /\ AiThisTurn = 0
            /\ \A i \in DOMAIN trace : trace[i] \notin TerminalSteps)
    /\ [][node' = "ABORTED" =>
            /\ trace' = trace /\ messages' = messages
            /\ documents' = documents /\ update' = update
            /\ steps' = steps /\ router' = router /\ context' = context]_vars
    /\ [][(node = "ABORTED" /\ node' # "ABORTED") => turn' = turn + 1]_vars
    /\ [][\A i \in DOMAIN researchers :
            researchers[i].at = "FAILED" =>
                IF DOMAIN researchers' = {} THEN turn' = turn + 1
                ELSE researchers'[i] = researchers[i]]_vars

C12_Witness ==
    /\ node = "ABORTED"
    /\ turn = 1
    /\ Len(researchers) = 2
    /\ researchers[1].at = "FAILED"
    /\ researchers[1].tasks # <<>>
    /\ researchers[2].at = "END"
    /\ researchers[2].documents # <<>>
    /\ documents = <<>>
    /\ AiThisTurn = 0

----------------------------------------------------------------------------
(* Properties of the managers' caches and of the CRUD managers.            *)

\* two calls for the same key of the same manager, with no clear_cache of
\* that manager since
SameRequest(a, b) ==
    /\ a.pc = "returned" /\ b.pc = "returned"
    /\ a.manager = b.manager /\ a.key = b.key

Hit(t) ==
    /\ callers'[t] # callers[t]
    /\ callers'[t].pc = "returned"
    /\ cache[callers'[t].manager][callers'[t].key] # NoHandle

\* C14: a get call for a key that is cached returns the cached handle and
\* constructs nothing; no step changes a cached entry except clear_cache,
\* which removes the entries of its manager.
C14_CachedHandleIsReused ==
    /\ [][\A t \in Tasks : Hit(t) =>
            /\ callers'[t].got = cache[callers'[t].manager][callers'[t].key]
            /\ ~callers'[t].constructed
            /\ built' = built /\ cache' = cache]_vars
    /\ [][\A m \in Managers : \A k \in Keys :
            cache[m][k] # NoHandle =>
                \/ cache'[m][k] = cache[m][k]
                \/ /\ \A j \in Keys : cache'[m][j] = NoHandle
                   /\ built' = built
                   /\ \A t \in Tasks : callers'[t].pc \in {"idle", callers[t].pc}]_vars

C14_Witness ==
    /\ callers[1].pc = "returned" /\ callers[1].constructed
    /\ callers[2].pc = "returned" /\ ~callers[2].constructed
    /\ callers[1].manager = "ModelManager" /\ callers[2].manager = "ModelManager"
    /\ callers[1].key = callers[2].key
    /\ callers[2].got = cache["ModelManager"][callers[2].key]
    /\ callers[2].got # NoHandle
    /\ built = 2

\* the connection variables a provider needs
Required(p) ==
    IF p = "elastic" THEN {"ELASTICSEARCH_API_KEY"}
    ELSE IF p = "mongodb" THEN {"MONGODB_URI"}
    ELSE {}

\* C15: when a connection variable the provider needs is missing, there is
\* no constructed CRUD manager and no constructed retriever: construction
\* raised, before any operation was called.
C15_EagerConfigurationErrors ==
    /\ manager.backend # "" => Required(manager.provider) \subseteq environ
    /\ (result.op \in {"construct", "make_retriever"}
            /\ ~(Required(result.provider) \subseteq environ))
        => result.outcome \in {"ValueError", "KeyError"}

\* C16: on the Milvus manager delete_documents raises NotImplementedError
\* for every id list and leaves the store and the manager as they were.
C16_MilvusDeleteUnsupported ==
    [][(/\ manager.backend = "milvus"
        /\ result'.n = result.n + 1
        /\ result'.op = "delete_documents") =>
            /\ result'.outcome = "NotImplementedError"
            /\ store' = store
            /\ manager' = manager /\ next_id' = next_id]_vars

C16_Witness ==
    /\ manager.backend = "milvus"
    /\ result.op = "delete_documents"
    /\ result.outcome = "NotImplementedError"
    /\ Cardinality(store) = 2
    /\ store = result.before

\* the step that ran is the node n of the main graph
Step(n) == trace' = Append(trace, n)

\* C17: the routing step changes only router; the planning step only
\* steps; the researching step only documents, which it extends; the
\* clarifying, direct-answer and responding steps only messages, by one
\* assistant message; and after the routing step of a turn no step of that
\* turn changes router.
C17_StepFrames ==
    [][/\ Step("analyze_and_route_query") =>
            /\ steps' = steps /\ messages' = messages /\ documents' = documents
       /\ Step("create_research_plan") =>
            /\ router' = router /\ messages' = messages /\ documents' = documents
       /\ (Step("conduct_research") \/ (node = "gather" /\ node' = "respond")) =>
            /\ router' = router /\ steps' = steps /\ messages' = messages
            /\ IsPrefix(documents, documents')
       /\ \A n \in TerminalSteps : Step(n) =>
            /\ router' = router /\ steps' = steps /\ documents' = documents
            /\ messages' = Append(messages, "ai")
       /\ (turn' = turn /\ trace # <<>>) => router' = router]_vars

C17_Witness ==
    /\ turn = 2
    /\ trace = ResearchOrder
    /\ documents # <<>>
    /\ update = <<>>
    /\ steps # <<>>

\* C18, as claimed: in a research turn whose plan has no steps no documents
\* are gathered and the response is built from an empty document context.
C18_EmptyPlanEmptyContext ==
    (Classified("rag-research") /\ DOMAIN steps = {} /\ Ran("respond")) =>
        /\ update = <<>>
        /\ context = <<>>

\* C18, amended: in a research turn whose plan has no steps no researcher
\* runs and no documents are gathered, the turn leaves the document
\* collection as the earlier turns of the thread left it, and the response
\* is built from exactly that collection.
C18_EmptyPlanNoNewDocuments ==
    /\ []((Classified("rag-research") /\ DOMAIN steps = {} /\ Ran("respond")) =>
            /\ DOMAIN researchers = {}
            /\ update = <<>>
            /\ context = documents)
    /\ [][(/\ turn' = turn
           /\ Classified("rag-research")'
           /\ Ran("create_research_plan")'
           /\ DOMAIN steps' = {}) => documents' = documents]_vars

C18_Witness ==
    /\ turn = 2
    /\ Classified("rag-research") /\ DOMAIN steps = {} /\ Ran("respond")
    /\ Len(context) = 2
    /\ context = documents

\* the documents of the researchers before the i-th
RECURSIVE Before(_, _)
Before(rs, i) == IF i <= 1 THEN 0 ELSE Before(rs, i - 1) + Len(rs[i - 1].documents)

\* C19: the update conduct_research returned is the documents of the first
\* step's researcher, then the second's, and so on, repeats included; the
\* state's collection holds each id of the update exactly once.
C19_ConcatNoDedup ==
    (node = "respond" \/ Ran("respond")) =>
        /\ Len(update) = Before(researchers, Len(researchers) + 1)
        /\ \A i \in DOMAIN researchers :
            \A d \in DOMAIN researchers[i].documents :
                update[Before(researchers, i) + d] = researchers[i].documents[d]
        /\ \A u \in DOMAIN update :
            Cardinality({d \in DOMAIN documents :
                            documents[d].uuid = update[u].uuid}) = 1

C19_Witness ==
    /\ Ran("respond")
    /\ Len(researchers) = 2
    /\ Len(update) = 3
    /\ update[1] = update[3]
    /\ Len(documents) = 2


\* C20: a turn whose model and retriever calls all return reaches its end;
\* when it has ended exactly one of the three terminal steps has run, it
\* ran last, and no step ran twice in the turn; after the end the only step
\* is the next turn's first.
C20_TurnTerminates ==
    /\ \A t \in 1..MaxTurns : (turn = t) ~> (turn = t /\ node = "END")
    /\ [](\A i, j \in DOMAIN trace : i # j => trace[i] # trace[j])
    /\ [](node = "END" =>
            /\ trace # <<>>
            /\ trace[Len(trace)] \in TerminalSteps
            /\ Cardinality({i \in DOMAIN trace : trace[i] \in TerminalSteps}) = 1)
    /\ [][node = "END" => (turn' = turn + 1 /\ trace' = <<>>)]_vars

C20_Witness ==
    /\ turn = MaxTurns
    /\ node = "END"
    /\ trace = ResearchOrder
    /\ Len(researchers) = 2

----------------------------------------------------------------------------
(* Further properties of reduce_docs.                                      *)

\* the documents the call appended come from the items of `new`, in order:
\* from[n] is the item the n-th appended document was made from
FromItems(from) ==
    /\ \A n \in DOMAIN Appended :
        /\ new.items[from[n]].kind \in {"str", "dict", "doc"}
        /\ Appended[n].page_content = new.items[from[n]].page_content
        /\ Appended[n].uuid = ClaimedId(new.items[from[n]])
    /\ \A n, o \in DOMAIN Appended : n < o => from[n] < from[o]

\* C21: every document a reduce_docs call adds has a uuid that is there and
\* is not empty: for a string the id derived from it; for a dict or a
\* Document the uuid of its metadata if it has one, else the id derived from
\* its content; and the document in the result carries that id.
C21_AddedDocumentsCarryUuid ==
    (Called /\ Returned) =>
        /\ \A n \in DOMAIN Appended : Appended[n].uuid \notin {NoUuid, EmptyUuid}
        /\ (new.kind = "str" /\ new.text # "delete") =>
                \A n \in DOMAIN Appended : Appended[n].uuid = "md5:" \o new.text
        /\ new.kind = "list" =>
                \E from \in [DOMAIN Appended -> DOMAIN new.items] : FromItems(from)

C21_Witness ==
    /\ Returned /\ new.kind = "list" /\ Len(new.items) = 2
    /\ new.items[1].kind = "doc" /\ new.items[1].uuid = NoUuid
    /\ new.items[2].kind = "dict" /\ new.items[2].uuid = EmptyUuid
    /\ existing # <<>>
    /\ Len(Appended) = 2
    /\ Appended[1].uuid = "md5:a" /\ Appended[2].uuid = "md5:b"

NotOther(item) == item.kind # "other"

\* C22: every reduce_docs call returns a collection, and an item that is
\* neither a string, a dict nor a Document changes nothing: the result is
\* the result for the list without such items.
C22_NoErrorOutcome ==
    Called =>
        /\ Returned
        /\ new.kind = "list" =>
                docs = reduce_docs(existing, ListNew(SelectSeq(new.items, NotOther))).docs

\* C29: a reduce_docs call, returning or raising, leaves `existing` and
\* every item of `new` as they were; a Document item without a uuid still
\* has none, while the document made from it in the result has one.
C29_ArgumentsUntouched ==
    Called =>
        /\ after.existing = existing
        /\ after.new = new

C29_Witness ==
    /\ Returned /\ new.kind = "list" /\ Len(new.items) = 2
    /\ new.items[1].kind = "doc" /\ new.items[1].uuid = EmptyUuid
    /\ new.items[2].kind = "doc" /\ new.items[2].uuid = "u1"
    /\ after.new.items[1].uuid = EmptyUuid
    /\ Len(Appended) = 2
    /\ Appended[1].uuid = "md5:a"
    /\ Len(existing) = 2
    /\ after.existing = existing

----------------------------------------------------------------------------
(* Further properties of the main graph.                                   *)

\* C28: on one thread no step removes or reorders documents: the collection
\* after a step starts with the collection before it, across turns too;
\* the responding step builds its context from the whole collection; and a
\* step of a turn classified more-info or general leaves documents and
\* steps as they were.
C28_DocumentsOnlyGrow ==
    /\ [][IsPrefix(documents, documents')]_vars
    /\ [](Ran("respond") => context = documents)
    /\ [][(/\ turn' = turn
           /\ \E t \in {"more-info", "general"} : Classified(t)')
            => (documents' = documents /\ steps' = steps)]_vars
    /\ [][turn' # turn => steps' = steps]_vars

C28_Witness ==
    /\ turn = 2
    /\ Classified("general")
    /\ node = "END"
    /\ Len(documents) = 2
    /\ Len(steps) = 2

----------------------------------------------------------------------------
(* Further properties of the managers' caches.                             *)

\* the step is a get call of task t that ends by raising
Raises(t) == callers[t].pc = "constructing" /\ callers'[t].pc = "raised"

\* C30: a get call whose construction raises leaves the cache as it was, for
\* its key and for every other key; an entry is there only for a key whose
\* construction returned since the last clear_cache, and is the handle that
\* construction made; the next get call for a key without an entry
\* constructs again.
C30_FailedConstructionNotCached ==
    /\ [][\A t \in Tasks : Raises(t) => (cache' = cache /\ built' = built)]_vars
    /\ [](\A m \in Managers : \A k \in Keys :
            cache[m][k] # NoHandle <=> made[m][k] >= 1)
    /\ [](\A t \in Tasks : callers[t].pc = "returned" =>
            /\ callers[t].got # NoHandle
            /\ callers[t].got = cache[callers[t].manager][callers[t].key])
    /\ [][\A t \in Tasks :
            (/\ callers'[t] # callers[t]
             /\ callers[t].pc # "constructing"
             /\ callers'[t].manager \in Managers
             /\ cache[callers'[t].manager][callers'[t].key] = NoHandle)
                => callers'[t].pc = "constructing"]_vars

C30_Witness ==
    /\ callers[1].pc = "raised"
    /\ callers[2].pc = "returned" /\ callers[2].constructed
    /\ callers[1].manager = callers[2].manager
    /\ callers[1].key = callers[2].key
    /\ callers[2].got = 1
    /\ built = 1
    /\ \E k \in Keys : cache[callers[1].manager][k] = NoHandle

\* the dict a sequence of items stands for
AsDict(kw) == {kw[j] : j \in DOMAIN kw}
\* the two configurations have the same provider, embedding model and
\* search parameters
Agree(c, d) ==
    /\ c.retriever_provider = d.retriever_provider
    /\ c.embedding_model = d.embedding_model
    /\ AsDict(c.search_kwargs) = AsDict(d.search_kwargs)

\* C24: two get_retriever calls whose configurations have the same
\* provider, embedding model and search parameters, in whatever order the
\* parameters were given and whatever the other fields, use the same key
\* and, with no clear_cache in between, get the same retriever; two calls
\* whose configurations differ in one of the three use different keys.
C24_ConfigKey ==
    \A t, u \in Tasks :
        (callers[t].manager = "RetrieverManager"
            /\ callers[u].manager = "RetrieverManager") =>
            /\ Agree(callers[t].config, callers[u].config)
                    <=> callers[t].key = callers[u].key
            /\ (/\ Agree(callers[t].config, callers[u].config)
                 /\ callers[t].pc = "returned" /\ callers[u].pc = "returned")
                    => callers[t].got = callers[u].got

C24_Witness ==
    /\ callers[1].pc = "returned" /\ callers[2].pc = "returned"
    /\ callers[1].config.search_kwargs =
            <<[key |-> "k", value |-> 1], [key |-> "filter", value |-> 1]>>
    /\ callers[2].config.search_kwargs =
            <<[key |-> "filter", value |-> 1], [key |-> "k", value |-> 1]>>
    /\ callers[1].key = callers[2].key
    /\ callers[1].constructed /\ ~callers[2].constructed
    /\ callers[1].got = callers[2].got
    /\ built = 2

----------------------------------------------------------------------------
(* Further properties of retriever construction and the CRUD managers.     *)

\* C26: with the connection variables it needs in place, make_retriever
\* returns a retriever for every provider of the enumerated set, and it
\* raises ValueError for every provider outside the set.
C26_ProvidersAccepted ==
    (result.op = "make_retriever" /\ Required(result.provider) \subseteq environ) =>
        /\ result.provider \in retriever_provider_args => result.outcome = "ok"
        /\ result.provider \notin retriever_provider_args
                => result.outcome = "ValueError"

\* the last call was this operation and it returned
Did(op) == result.op = op /\ result.outcome = "ok"

----------------------------------------------------------------------------
(* Properties of the index graph.                                          *)

IndexOver == index.pc \in {"aadd_documents", "END", "ABORTED"}

\* C23: a run of index_docs with a config, on a state without documents and
\* with no file at docs_file, raises nothing, makes no retriever, adds
\* nothing and ends returning the delete instruction.
C23_MissingFileIsNoDocuments ==
    (/\ IndexOver
     /\ index.config
     /\ index.input = <<>>
     /\ index.file.status = "missing") =>
        /\ index.pc = "END"
        /\ index.raised = ""
        /\ ~index.retriever
        /\ index.added = <<>>
        /\ index.returned = StrNew("delete")

\* C25: when a run of the index graph has ended, the documents field of its
\* state is the empty collection.
C25_IndexStateEmptied ==
    index.pc = "END" => index.documents = ListNew(<<>>)

====
